---- MODULE Spec2Model ----
(***************************************************************************)
(* A model of extcmd.py: ExternalCommand (call / check_call) and           *)
(* ExternalCommandWithDelegate (call, _on_keyboard_interrupt,              *)
(* _read_stream, _drain_queue).                                            *)
(*                                                                         *)
(* Threads of one ExternalCommandWithDelegate.call: the supervisor (the    *)
(* caller's thread), the child process, the stdout and stderr reader       *)
(* threads and the queue worker thread.  The instance's Queue outlives a   *)
(* call, so several sequential calls on one instance are modelled.         *)
(***************************************************************************)
EXTENDS Integers, Sequences, FiniteSets, TLC

\* ------------------------------------------------------------------ bounds
MaxOut == 2     \* lines the children write on stdout over a run
MaxErr == 1     \* lines the children write on stderr over a run
PipeCap == 1    \* lines an OS pipe buffers before the child's write blocks
MaxCalls == 2   \* sequential calls on one instance
MaxExit == 1    \* a child exits with a code in 0..MaxExit
ChainLen == 2   \* delegates in a Chain's delegate_list
MaxApplied == 2 \* on_line calls a caller makes directly on a combinator

\* --------------------------------------------------------------- constants
SIGKILL == 9    \* proc.kill() sends SIGKILL; Popen reports it as -SIGKILL

Tags == {"stdout", "stderr"}
MaxWritten == [t \in Tags |-> IF t = "stdout" THEN MaxOut ELSE MaxErr]

\* Command specifications a caller passes; "" is Python's one falsy string.
Commands == {"", "ls", "make"}
ExitCodes == 0..MaxExit

\* Tags a caller may pass to a combinator: the two stream names and one
\* that is neither.
AnyTags == Tags \cup {"stdin"}

\* The delegates of a Chain's delegate_list, by position.
Recorders == 1..ChainLen

\* Line contents, as the index of the line in its stream.
Contents == 1..MaxOut

\* Callbacks a caller gives to Transform.
Callbacks == {"negate", "by_tag"}

\* Python's None and a present value, as sequences of length 0 and 1.
None == <<>>
Some(v) == <<v>>

VARIABLES
    \* ---- ExternalCommandWithDelegate instance
    queue,           \* self._queue: FIFO of (stream_name, line) and None
    \* ---- the supervisor: the thread running call()
    sup_pc,          \* position in call()
    ncalls,          \* calls made so far on this instance
    returncode,      \* proc.returncode: None until wait() reaps the child
    pending,         \* error raised in the except clause, re-raised after finally
    outcome,         \* of the last call: "none" | "running" | "returned" | "raised"
    retval,          \* the value the last call returned (None or Some(int))
    error,           \* the error that escaped the last call ("" when none)
    sup_trace,       \* the operations call() has performed, in order
    sentinels,       \* number of None put on the queue by this call
    \* ---- the child process
    proc_state,      \* "none" | "running" | "exited" | "killed"
    exit_code,       \* the code the child passed to exit()
    written,         \* per stream: lines written so far over the run
    produced,        \* per stream: the lines this call's child wrote, in order
    pipe,            \* per stream: lines in the OS pipe, not yet read
    \* ---- the reader threads
    reader_pc,       \* per stream: "new" | "readline" | "put" | "done" | "failed"
    reader_line,     \* per stream: the line just read (None or Some)
    nread,           \* per stream: lines readline() returned in this call
    \* ---- the worker thread and the delegate
    worker_pc,       \* "new" | "get" | "on_line" | "done" | "dead"
    on_line_callers, \* threads currently executing delegate.on_line
    delivered,       \* the on_line calls made in this call, in order
    \* ---- ExternalCommand (the base class), one caller
    b_pc,            \* "idle" | "wait" | "check"
    b_method,        \* "call" | "check_call"
    b_args,          \* args: the positional arguments
    b_kwargs,        \* kwargs.get("args"): None when the keyword is not given
    b_proc,          \* "none" | "running" | "exited"
    b_exit_code,     \* the code the child passed to exit()
    b_returncode,    \* proc.returncode
    b_result,        \* None or Some(value returned to the caller)
    b_error,         \* "" or the type of the error raised to the caller
    b_err_returncode, \* CalledProcessError.returncode (None when not raised)
    b_err_cmd,       \* CalledProcessError.cmd (None when not raised)
    \* ---- the delegate combinators: Chain, Redirect, Transform
    d_kind,          \* the delegate the instance was built with
    d_error,         \* the error that ended the worker ("" when none)
    dstate,          \* what the delegate objects have recorded and written
    k_history,       \* the on_line calls a caller made on a combinator
    k_before,        \* dstate before the last of these calls
    k_raised         \* whether the last of these calls raised

delegate_vars == <<queue, sup_pc, ncalls, returncode, pending, outcome,
                   retval, error, sup_trace, sentinels, proc_state, exit_code, written,
                   produced, pipe, reader_pc, reader_line, nread, worker_pc,
                   on_line_callers, delivered>>
base_vars == <<b_pc, b_method, b_args, b_kwargs, b_proc, b_exit_code,
               b_returncode, b_result, b_error, b_err_returncode, b_err_cmd>>
comb_vars == <<d_kind, d_error, dstate, k_history, k_before, k_raised>>
vars == <<delegate_vars, base_vars, comb_vars>>

sup_vars == <<sup_pc, ncalls, returncode, pending, outcome, retval, error,
              sup_trace, sentinels>>
child_vars == <<proc_state, exit_code, written, produced, pipe>>
reader_vars == <<reader_pc, reader_line, nread>>
worker_vars == <<worker_pc, on_line_callers, delivered>>

\* Delegate objects that have recorded and written nothing: log is the
\* on_line calls the recording delegates received (delegate, tag, line),
\* sink what Redirect wrote per stream, cb_calls the calls of Transform's
\* callback.
EmptyDelegates ==
    [log |-> <<>>, sink |-> [t \in Tags |-> <<>>], cb_calls |-> <<>>]

InitCombinators ==
    /\ d_error = ""
    /\ dstate = EmptyDelegates
    /\ k_history = <<>>
    /\ k_before = EmptyDelegates
    /\ k_raised = FALSE

InitProgram ==
    /\ queue = <<>>
    /\ sup_pc = "idle"
    /\ ncalls = 0
    /\ returncode = None
    /\ pending = ""
    /\ outcome = "none"
    /\ retval = None
    /\ error = ""
    /\ sup_trace = <<>>
    /\ sentinels = 0
    /\ proc_state = "none"
    /\ exit_code = None
    /\ written = [t \in Tags |-> 0]
    /\ produced = [t \in Tags |-> <<>>]
    /\ pipe = [t \in Tags |-> <<>>]
    /\ reader_pc = [t \in Tags |-> "new"]
    /\ reader_line = [t \in Tags |-> None]
    /\ nread = [t \in Tags |-> 0]
    /\ worker_pc = "new"
    /\ on_line_callers = {}
    /\ delivered = <<>>
    /\ b_pc = "idle"
    /\ b_method = "call"
    /\ b_args = <<>>
    /\ b_kwargs = None
    /\ b_proc = "none"
    /\ b_exit_code = None
    /\ b_returncode = None
    /\ b_result = None
    /\ b_error = ""
    /\ b_err_returncode = None
    /\ b_err_cmd = None
    /\ InitCombinators

\* The instance is built with a delegate of which nothing is known but that
\* its on_line returns or raises.
Init == InitProgram /\ d_kind = "opaque"

\* ------------------------------------------------------------ the child
\* The status Popen reports for the child once it is reaped.
ExitStatus ==
    IF proc_state = "killed" THEN 0 - SIGKILL ELSE exit_code[1]

\* The child's end of a pipe is closed once the child is gone.
Closed == proc_state \in {"exited", "killed"}

ChildWrite(t) ==
    /\ proc_state = "running"
    /\ written[t] < MaxWritten[t]
    /\ Len(pipe[t]) < PipeCap
    /\ written' = [written EXCEPT ![t] = @ + 1]
    /\ pipe' = [pipe EXCEPT ![t] = Append(@, written[t] + 1)]
    /\ produced' = [produced EXCEPT ![t] = Append(@, written[t] + 1)]
    /\ UNCHANGED <<proc_state, exit_code>>
    /\ UNCHANGED <<queue, sup_vars, reader_vars, worker_vars, base_vars, comb_vars>>

ChildExit(c) ==
    /\ proc_state = "running"
    /\ proc_state' = "exited"
    /\ exit_code' = Some(c)
    /\ UNCHANGED <<written, produced, pipe>>
    /\ UNCHANGED <<queue, sup_vars, reader_vars, worker_vars, base_vars, comb_vars>>

\* ------------------------------------------------- the supervisor: call()
\* call() that starts the worker before it launches the child.
CallStartsWorkerFirst(launched) ==
    /\ sup_pc = "idle"
    /\ ncalls < MaxCalls
    /\ ncalls' = ncalls + 1
    /\ returncode' = None
    /\ pending' = ""
    /\ retval' = None
    /\ sentinels' = 0
    /\ sup_trace' = <<"popen">>
    /\ exit_code' = None
    /\ produced' = [t \in Tags |-> <<>>]
    /\ pipe' = [t \in Tags |-> <<>>]
    /\ reader_pc' = [t \in Tags |-> "new"]
    /\ reader_line' = [t \in Tags |-> None]
    /\ nread' = [t \in Tags |-> 0]
    /\ worker_pc' = "get"
    /\ on_line_callers' = {}
    /\ delivered' = <<>>
    /\ IF launched
         THEN /\ sup_pc' = "start_worker"
              /\ proc_state' = "running"
              /\ outcome' = "running"
              /\ error' = ""
         ELSE /\ sup_pc' = "idle"
              /\ proc_state' = "none"
              /\ outcome' = "raised"
              /\ error' = "OSError"
    /\ UNCHANGED <<queue, written, base_vars, comb_vars>>

\* Lines 103-113: Popen with both streams piped, then the three Thread
\* objects are created (not started).  Popen raises when the launch fails.
Call(launched) ==
    /\ sup_pc = "idle"
    /\ ncalls < MaxCalls
    /\ ncalls' = ncalls + 1
    /\ returncode' = None
    /\ pending' = ""
    /\ retval' = None
    /\ sentinels' = 0
    /\ sup_trace' = <<"popen">>
    /\ exit_code' = None
    /\ produced' = [t \in Tags |-> <<>>]
    /\ pipe' = [t \in Tags |-> <<>>]
    /\ reader_pc' = [t \in Tags |-> "new"]
    /\ reader_line' = [t \in Tags |-> None]
    /\ nread' = [t \in Tags |-> 0]
    /\ worker_pc' = "new"
    /\ on_line_callers' = {}
    /\ delivered' = <<>>
    /\ IF launched
         THEN /\ sup_pc' = "start_worker"
              /\ proc_state' = "running"
              /\ outcome' = "running"
              /\ error' = ""
         ELSE /\ sup_pc' = "idle"
              /\ proc_state' = "none"
              /\ outcome' = "raised"
              /\ error' = "OSError"
    /\ UNCHANGED <<queue, written, base_vars, comb_vars>>

\* Line 115: queue_worker.start()
StartWorker ==
    /\ sup_pc = "start_worker"
    /\ worker_pc' = "get"
    /\ sup_pc' = "start_stdout"
    /\ sup_trace' = Append(sup_trace, "start_worker")
    /\ UNCHANGED <<ncalls, returncode, pending, outcome, retval, error, sentinels>>
    /\ UNCHANGED <<queue, child_vars, reader_vars, on_line_callers, delivered,
                   base_vars, comb_vars>>

\* Line 116: stdout_reader.start()
StartStdoutReader ==
    /\ sup_pc = "start_stdout"
    /\ reader_pc' = [reader_pc EXCEPT !["stdout"] = "readline"]
    /\ sup_pc' = "start_stderr"
    /\ sup_trace' = Append(sup_trace, "start_stdout")
    /\ UNCHANGED <<ncalls, returncode, pending, outcome, retval, error, sentinels>>
    /\ UNCHANGED <<queue, child_vars, reader_line, nread, worker_vars, base_vars, comb_vars>>

\* call() without line 117: the stderr reader is never started.
StartStderrReaderSkipped ==
    /\ sup_pc = "start_stderr"
    /\ sup_pc' = "wait"
    /\ sup_trace' = Append(sup_trace, "start_stderr")
    /\ UNCHANGED <<ncalls, returncode, pending, outcome, retval, error, sentinels>>
    /\ UNCHANGED <<queue, child_vars, reader_vars, worker_vars, base_vars, comb_vars>>

\* Line 117: stderr_reader.start()
StartStderrReader ==
    /\ sup_pc = "start_stderr"
    /\ reader_pc' = [reader_pc EXCEPT !["stderr"] = "readline"]
    /\ sup_pc' = "wait"
    /\ sup_trace' = Append(sup_trace, "start_stderr")
    /\ UNCHANGED <<ncalls, returncode, pending, outcome, retval, error, sentinels>>
    /\ UNCHANGED <<queue, child_vars, reader_line, nread, worker_vars, base_vars, comb_vars>>

\* Line 119: proc.wait() returns once the child is gone and sets returncode.
Wait ==
    /\ sup_pc = "wait"
    /\ Closed
    /\ returncode' = Some(ExitStatus)
    /\ sup_pc' = "join_stdout"
    /\ sup_trace' = Append(sup_trace, "wait")
    /\ UNCHANGED <<ncalls, pending, outcome, retval, error, sentinels>>
    /\ UNCHANGED <<queue, child_vars, reader_vars, worker_vars, base_vars, comb_vars>>

\* Line 120: KeyboardInterrupt is raised in proc.wait(), before it returns:
\* returncode is left as it was.
KeyboardInterrupt ==
    /\ sup_pc = "wait"
    /\ sup_pc' = "interrupted"
    /\ sup_trace' = Append(sup_trace, "interrupt")
    /\ UNCHANGED <<ncalls, returncode, pending, outcome, retval, error, sentinels>>
    /\ UNCHANGED <<queue, child_vars, reader_vars, worker_vars, base_vars, comb_vars>>

\* _on_keyboard_interrupt that does not kill the child.
OnKeyboardInterruptNoKill(kill_fails) ==
    /\ sup_pc = "interrupted"
    /\ ~kill_fails
    /\ sup_pc' = "join_stdout"
    /\ UNCHANGED <<ncalls, returncode, pending, outcome, retval, error,
                   sup_trace, sentinels>>
    /\ UNCHANGED <<queue, child_vars, reader_vars, worker_vars, base_vars, comb_vars>>

\* Lines 121, 129-130: _on_keyboard_interrupt: proc.kill().  A running child
\* dies of SIGKILL.  A child that has already exited is not affected; on
\* some platforms the kill of an exited process raises OSError, which is
\* re-raised after the finally block.
OnKeyboardInterrupt(kill_fails) ==
    /\ sup_pc = "interrupted"
    /\ kill_fails => proc_state = "exited"
    /\ proc_state' = IF proc_state = "running" THEN "killed" ELSE proc_state
    /\ pending' = IF kill_fails THEN "OSError" ELSE ""
    /\ sup_pc' = "join_stdout"
    /\ sup_trace' = Append(sup_trace, "kill")
    /\ UNCHANGED <<ncalls, returncode, outcome, retval, error, sentinels>>
    /\ UNCHANGED <<queue, exit_code, written, produced, pipe, reader_vars,
                   worker_vars, base_vars, comb_vars>>

\* A Thread has terminated when its target returned or raised.
ReaderTerminated(t) == reader_pc[t] \in {"done", "failed"}
WorkerTerminated == worker_pc \in {"done", "dead"}

\* call() with line 123 not waiting for the stdout reader.
JoinStdoutReaderNoWait ==
    /\ sup_pc = "join_stdout"
    /\ sup_pc' = "join_stderr"
    /\ sup_trace' = Append(sup_trace, "join_stdout")
    /\ UNCHANGED <<ncalls, returncode, pending, outcome, retval, error, sentinels>>
    /\ UNCHANGED <<queue, child_vars, reader_vars, worker_vars, base_vars, comb_vars>>

\* Line 123: stdout_reader.join()
JoinStdoutReader ==
    /\ sup_pc = "join_stdout"
    /\ ReaderTerminated("stdout")
    /\ sup_pc' = "join_stderr"
    /\ sup_trace' = Append(sup_trace, "join_stdout")
    /\ UNCHANGED <<ncalls, returncode, pending, outcome, retval, error, sentinels>>
    /\ UNCHANGED <<queue, child_vars, reader_vars, worker_vars, base_vars, comb_vars>>

\* Line 124: stderr_reader.join()
JoinStderrReader ==
    /\ sup_pc = "join_stderr"
    /\ ReaderTerminated("stderr")
    /\ sup_pc' = "put_none"
    /\ sup_trace' = Append(sup_trace, "join_stderr")
    /\ UNCHANGED <<ncalls, returncode, pending, outcome, retval, error, sentinels>>
    /\ UNCHANGED <<queue, child_vars, reader_vars, worker_vars, base_vars, comb_vars>>

\* Line 125: self._queue.put(None)
PutNone ==
    /\ sup_pc = "put_none"
    /\ queue' = Append(queue, None)
    /\ sentinels' = sentinels + 1
    /\ sup_pc' = "join_worker"
    /\ sup_trace' = Append(sup_trace, "put_none")
    /\ UNCHANGED <<ncalls, returncode, pending, outcome, retval, error>>
    /\ UNCHANGED <<child_vars, reader_vars, worker_vars, base_vars, comb_vars>>

\* call() with line 126 not waiting for the worker.
JoinWorkerNoWait ==
    /\ sup_pc = "join_worker"
    /\ sup_pc' = "idle"
    /\ sup_trace' = Append(sup_trace, "join_worker")
    /\ IF pending # ""
         THEN /\ outcome' = "raised"
              /\ error' = pending
              /\ retval' = None
         ELSE /\ outcome' = "returned"
              /\ error' = ""
              /\ retval' = returncode
    /\ UNCHANGED <<ncalls, returncode, pending, sentinels>>
    /\ UNCHANGED <<queue, child_vars, reader_vars, worker_vars, base_vars, comb_vars>>

\* Lines 126-127: queue_worker.join(), the finally block ends: a pending
\* error is re-raised, otherwise call returns proc.returncode.
JoinWorker ==
    /\ sup_pc = "join_worker"
    /\ WorkerTerminated
    /\ sup_pc' = "idle"
    /\ sup_trace' = Append(sup_trace, "join_worker")
    /\ IF pending # ""
         THEN /\ outcome' = "raised"
              /\ error' = pending
              /\ retval' = None
         ELSE /\ outcome' = "returned"
              /\ error' = ""
              /\ retval' = returncode
    /\ UNCHANGED <<ncalls, returncode, pending, sentinels>>
    /\ UNCHANGED <<queue, child_vars, reader_vars, worker_vars, base_vars, comb_vars>>

\* ------------------------------------------- the readers: _read_stream
\* Line 133: stream.readline() returns the next line of the pipe, blocks on
\* an empty pipe the child still holds open, and returns '' (the end of the
\* iter(...) loop, so the thread terminates) on an empty closed pipe.
ReadLine(t) ==
    /\ reader_pc[t] = "readline"
    /\ IF pipe[t] # <<>>
         THEN /\ reader_line' = [reader_line EXCEPT ![t] = Some(Head(pipe[t]))]
              /\ pipe' = [pipe EXCEPT ![t] = Tail(@)]
              /\ nread' = [nread EXCEPT ![t] = @ + 1]
              /\ reader_pc' = [reader_pc EXCEPT ![t] = "put"]
         ELSE /\ Closed
              /\ reader_pc' = [reader_pc EXCEPT ![t] = "done"]
              /\ UNCHANGED <<reader_line, pipe, nread>>
    /\ UNCHANGED <<proc_state, exit_code, written, produced>>
    /\ UNCHANGED <<queue, sup_vars, worker_vars, base_vars, comb_vars>>

\* Line 133: stream.readline() raises (IOError).  Nothing in _read_stream
\* catches it: the reader thread terminates; what is left in the pipe is
\* not read.
ReaderIOError(t) ==
    /\ reader_pc[t] = "readline"
    /\ reader_pc' = [reader_pc EXCEPT ![t] = "failed"]
    /\ UNCHANGED <<reader_line, nread>>
    /\ UNCHANGED <<queue, sup_vars, child_vars, worker_vars, base_vars, comb_vars>>

\* _read_stream that calls the delegate itself instead of queueing the line.
ReaderPutCallsDelegate(t) ==
    /\ reader_pc[t] = "put"
    /\ on_line_callers' = on_line_callers \cup {t}
    /\ delivered' = Append(delivered, <<t, reader_line[t][1]>>)
    /\ reader_line' = [reader_line EXCEPT ![t] = None]
    /\ reader_pc' = [reader_pc EXCEPT ![t] = "readline"]
    /\ UNCHANGED <<queue, nread, worker_pc>>
    /\ UNCHANGED <<sup_vars, child_vars, base_vars, comb_vars>>

\* _read_stream over a Queue(maxsize=1): put blocks while the queue is full.
ReaderPutBounded(t) ==
    /\ reader_pc[t] = "put"
    /\ Len(queue) < 1
    /\ queue' = Append(queue, <<t, reader_line[t][1]>>)
    /\ reader_line' = [reader_line EXCEPT ![t] = None]
    /\ reader_pc' = [reader_pc EXCEPT ![t] = "readline"]
    /\ UNCHANGED nread
    /\ UNCHANGED <<sup_vars, child_vars, worker_vars, base_vars, comb_vars>>

\* _read_stream that puts the line under the name of the other stream.
ReaderPutOtherTag(t) ==
    /\ reader_pc[t] = "put"
    /\ queue' = Append(queue, <<CHOOSE u \in Tags : u # t, reader_line[t][1]>>)
    /\ reader_line' = [reader_line EXCEPT ![t] = None]
    /\ reader_pc' = [reader_pc EXCEPT ![t] = "readline"]
    /\ UNCHANGED nread
    /\ UNCHANGED <<sup_vars, child_vars, worker_vars, base_vars, comb_vars>>

\* Lines 134-135: cmd = (stream_name, line); self._queue.put(cmd).  The
\* Queue is unbounded: put never blocks.
ReaderPut(t) ==
    /\ reader_pc[t] = "put"
    /\ queue' = Append(queue, <<t, reader_line[t][1]>>)
    /\ reader_line' = [reader_line EXCEPT ![t] = None]
    /\ reader_pc' = [reader_pc EXCEPT ![t] = "readline"]
    /\ UNCHANGED nread
    /\ UNCHANGED <<sup_vars, child_vars, worker_vars, base_vars, comb_vars>>

\* ------------------------------------------- the worker: _drain_queue
\* _drain_queue over a LIFO queue: get takes the newest item.
DrainGetLifo ==
    /\ worker_pc = "get"
    /\ queue # <<>>
    /\ queue' = SubSeq(queue, 1, Len(queue) - 1)
    /\ IF queue[Len(queue)] = None
         THEN /\ worker_pc' = "done"
              /\ UNCHANGED <<on_line_callers, delivered>>
         ELSE /\ worker_pc' = "on_line"
              /\ on_line_callers' = on_line_callers \cup {"queue_worker"}
              /\ delivered' = Append(delivered, queue[Len(queue)])
    /\ UNCHANGED <<sup_vars, child_vars, reader_vars, base_vars, comb_vars>>

\* Lines 138-142: args = self._queue.get() blocks on an empty queue; None
\* ends the loop; anything else is passed to self._delegate.on_line.
DrainGet ==
    /\ worker_pc = "get"
    /\ queue # <<>>
    /\ queue' = Tail(queue)
    /\ IF Head(queue) = None
         THEN /\ worker_pc' = "done"
              /\ UNCHANGED <<on_line_callers, delivered>>
         ELSE /\ worker_pc' = "on_line"
              /\ on_line_callers' = on_line_callers \cup {"queue_worker"}
              /\ delivered' = Append(delivered, Head(queue))
    /\ UNCHANGED <<sup_vars, child_vars, reader_vars, base_vars, comb_vars>>

\* Line 142: the delegate's on_line returns; the loop continues.
OnLineReturns ==
    /\ worker_pc = "on_line"
    /\ worker_pc' = "get"
    /\ on_line_callers' = on_line_callers \ {"queue_worker"}
    /\ UNCHANGED delivered
    /\ UNCHANGED <<queue, sup_vars, child_vars, reader_vars, base_vars, comb_vars>>

\* Line 142: the delegate's on_line raises.  Nothing in _drain_queue catches
\* it: it ends the thread's target, so the worker thread terminates.  An
\* error that ends a Thread is not passed to the thread that joins it.
OnLineRaises ==
    /\ worker_pc = "on_line"
    /\ worker_pc' = "dead"
    /\ on_line_callers' = on_line_callers \ {"queue_worker"}
    /\ UNCHANGED delivered
    /\ UNCHANGED <<queue, sup_vars, child_vars, reader_vars, base_vars, comb_vars>>

\* ------------------------------------------------------- specification
NextProgram ==
    \/ \E launched \in BOOLEAN : Call(launched)
    \/ StartWorker
    \/ StartStdoutReader
    \/ StartStderrReader
    \/ Wait
    \/ KeyboardInterrupt
    \/ \E kill_fails \in BOOLEAN : OnKeyboardInterrupt(kill_fails)
    \/ JoinStdoutReader
    \/ JoinStderrReader
    \/ PutNone
    \/ JoinWorker
    \/ \E t \in Tags : ChildWrite(t)
    \/ \E c \in ExitCodes : ChildExit(c)
    \/ \E t \in Tags : ReadLine(t)
    \/ \E t \in Tags : ReaderPut(t)
    \/ DrainGet

Next ==
    \/ NextProgram
    \/ OnLineReturns
    \/ OnLineRaises

Spec == Init /\ [][Next]_vars

\* The same program on streams whose reads may fail.
NextIO ==
    \/ Next
    \/ \E t \in Tags : ReaderIOError(t)

SpecIO == Init /\ [][NextIO]_vars

\* --------------------------------- the base class: ExternalCommand
\* Python truth value of a command specification.
Truthy(cmd) == cmd # ""

\* Line 58: kwargs.get("args") or args[0].  None stands for the IndexError
\* of args[0] on an empty tuple.
CheckCallCmd(args, kwargs) ==
    IF kwargs # None /\ Truthy(kwargs[1]) THEN Some(kwargs[1])
    ELSE IF Len(args) > 0 THEN Some(args[1])
    ELSE None

\* The command specification the caller gave, by position or by keyword.
OriginalCmd(args, kwargs) ==
    IF kwargs # None THEN kwargs[1] ELSE args[1]

\* Lines 39-43, 47-55, 61-64: call or check_call is invoked with the command
\* given by position or as the keyword args; _popen launches the child or
\* raises.
BaseInvoke(method, cmd, by_keyword, launched) ==
    /\ b_pc = "idle"
    /\ b_method' = method
    /\ b_args' = IF by_keyword THEN <<>> ELSE <<cmd>>
    /\ b_kwargs' = IF by_keyword THEN Some(cmd) ELSE None
    /\ b_exit_code' = None
    /\ b_returncode' = None
    /\ b_result' = None
    /\ b_err_returncode' = None
    /\ b_err_cmd' = None
    /\ IF launched
         THEN /\ b_pc' = "wait"
              /\ b_proc' = "running"
              /\ b_error' = ""
         ELSE /\ b_pc' = "idle"
              /\ b_proc' = "none"
              /\ b_error' = "OSError"
    /\ UNCHANGED <<delegate_vars, comb_vars>>

\* The child exits with code c.
BaseChildExit(c) ==
    /\ b_proc = "running"
    /\ b_proc' = "exited"
    /\ b_exit_code' = Some(c)
    /\ UNCHANGED <<b_pc, b_method, b_args, b_kwargs, b_returncode, b_result,
                   b_error, b_err_returncode, b_err_cmd>>
    /\ UNCHANGED <<delegate_vars, comb_vars>>

\* Lines 44-45: proc.wait() returns and call returns proc.returncode, to the
\* caller or to check_call.
BaseCall ==
    /\ b_pc = "wait"
    /\ b_proc = "exited"
    /\ b_returncode' = b_exit_code
    /\ IF b_method = "call"
         THEN /\ b_pc' = "idle"
              /\ b_result' = Some(b_exit_code[1])
         ELSE /\ b_pc' = "check"
              /\ UNCHANGED b_result
    /\ UNCHANGED <<b_method, b_args, b_kwargs, b_proc, b_exit_code, b_error,
                   b_err_returncode, b_err_cmd>>
    /\ UNCHANGED <<delegate_vars, comb_vars>>

\* Line 44: a KeyboardInterrupt in proc.wait() is not handled by the base
\* class: it escapes call (and check_call).
BaseInterrupt ==
    /\ b_pc = "wait"
    /\ b_pc' = "idle"
    /\ b_error' = "KeyboardInterrupt"
    /\ UNCHANGED <<b_method, b_args, b_kwargs, b_proc, b_exit_code,
                   b_returncode, b_result, b_err_returncode, b_err_cmd>>
    /\ UNCHANGED <<delegate_vars, comb_vars>>

\* Lines 56-59: check_call raises CalledProcessError on a non-zero code.
BaseCheckCall ==
    /\ b_pc = "check"
    /\ b_pc' = "idle"
    /\ IF b_returncode[1] # 0
         THEN IF CheckCallCmd(b_args, b_kwargs) = None
                THEN /\ b_error' = "IndexError"
                     /\ UNCHANGED <<b_result, b_err_returncode, b_err_cmd>>
                ELSE /\ b_error' = "CalledProcessError"
                     /\ b_err_returncode' = b_returncode
                     /\ b_err_cmd' = CheckCallCmd(b_args, b_kwargs)
                     /\ UNCHANGED b_result
         ELSE /\ b_result' = Some(b_returncode[1])
              /\ UNCHANGED <<b_error, b_err_returncode, b_err_cmd>>
    /\ UNCHANGED <<b_method, b_args, b_kwargs, b_proc, b_exit_code, b_returncode>>
    /\ UNCHANGED <<delegate_vars, comb_vars>>

NextBase ==
    \/ \E method \in {"call", "check_call"}, cmd \in Commands,
          by_keyword \in BOOLEAN, launched \in BOOLEAN :
            BaseInvoke(method, cmd, by_keyword, launched)
    \/ \E c \in ExitCodes : BaseChildExit(c)
    \/ BaseCall
    \/ BaseInterrupt
    \/ BaseCheckCall

SpecBase == Init /\ [][NextBase]_vars

\* ------------------------------ the combinators: Chain, Redirect, Transform
\* An on_line call on a delegate object gives the objects' new state and
\* whether the call raised.
Returned(d) == [d |-> d, raised |-> FALSE, error |-> ""]
Raised(d, e) == [d |-> d, raised |-> TRUE, error |-> e]

\* on_line of the i-th recording delegate: it records the call, and raises
\* when it is one of the failing delegates.
RecorderOnLine(d, i, failing, stream_name, line) ==
    LET d1 == [d EXCEPT !.log = Append(@, <<i, stream_name, line>>)]
    IN  IF i \in failing THEN Raised(d1, "Error") ELSE Returned(d1)

\* Redirect.on_line that writes every tag but stdout to the stderr sink.
RedirectOnLineNoAssert(d, stream_name, line) ==
    IF stream_name = "stdout"
      THEN Returned([d EXCEPT !.sink["stdout"] = Append(@, line)])
      ELSE Returned([d EXCEPT !.sink["stderr"] = Append(@, line)])

\* Lines 174-182: Redirect.on_line: the assert on the tag, then the line is
\* written to the sink of its stream.
RedirectOnLine(d, stream_name, line) ==
    IF ~(stream_name = "stdout" \/ stream_name = "stderr")
      THEN Raised(d, "AssertionError")
    ELSE IF stream_name = "stdout"
      THEN Returned([d EXCEPT !.sink["stdout"] = Append(@, line)])
      ELSE Returned([d EXCEPT !.sink["stderr"] = Append(@, line)])

\* on_line of a member of a delegate_list: a recording delegate or a Redirect.
MemberOnLine(d, member, i, failing, stream_name, line) ==
    IF member = "redirect"
      THEN RedirectOnLine(d, stream_name, line)
      ELSE RecorderOnLine(d, i, failing, stream_name, line)

\* Chain.on_line that goes on with the next delegate after one raised.
RECURSIVE ChainOnLineKeepsGoing(_, _, _, _, _, _)
ChainOnLineKeepsGoing(d, delegate_list, failing, i, stream_name, line) ==
    IF i > Len(delegate_list)
      THEN Returned(d)
      ELSE LET r == MemberOnLine(d, delegate_list[i], i, failing,
                                 stream_name, line)
           IN  ChainOnLineKeepsGoing(r.d, delegate_list, failing, i + 1,
                                     stream_name, line)

\* Chain.on_line that calls only the first delegate of the list.
ChainOnLineFirstOnly(d, delegate_list, failing, i, stream_name, line) ==
    IF i > Len(delegate_list)
      THEN Returned(d)
      ELSE MemberOnLine(d, delegate_list[i], i, failing, stream_name, line)

\* Lines 153-158: Chain.on_line: the for loop over delegate_list from its
\* i-th delegate on; an error of a delegate ends the loop and the call.
RECURSIVE ChainOnLine(_, _, _, _, _, _)
ChainOnLine(d, delegate_list, failing, i, stream_name, line) ==
    IF i > Len(delegate_list)
      THEN Returned(d)
      ELSE LET r == MemberOnLine(d, delegate_list[i], i, failing,
                                 stream_name, line)
           IN  IF r.raised
                 THEN r
                 ELSE ChainOnLine(r.d, delegate_list, failing, i + 1,
                                  stream_name, line)

\* A callback given to Transform: a rewriting of the line that may depend
\* on the tag.
ApplyCallback(callback, stream_name, line) ==
    IF callback = "negate" THEN 0 - line
    ELSE IF stream_name = "stdout" THEN line + 10
    ELSE line + 20

\* Transform.on_line that passes the line on as it came.
TransformOnLineUntransformed(d, callback, delegate, failing, stream_name, line) ==
    LET d1 == [d EXCEPT !.cb_calls = Append(@, <<stream_name, line>>)]
    IN  MemberOnLine(d1, delegate, 1, failing, stream_name, line)

\* Lines 200-206: Transform.on_line: the callback is called, then the
\* wrapped delegate with the same tag and the transformed line.
TransformOnLine(d, callback, delegate, failing, stream_name, line) ==
    LET d1 == [d EXCEPT !.cb_calls = Append(@, <<stream_name, line>>)]
        transformed_line == ApplyCallback(callback, stream_name, line)
    IN  MemberOnLine(d1, delegate, 1, failing, stream_name, transformed_line)

\* A delegate_list of recording delegates.
RecorderList == [i \in Recorders |-> "recorder"]

\* A caller calls on_line of a Chain of recording delegates, of which those
\* in failing raise.
ChainApply(stream_name, line, failing) ==
    /\ Len(k_history) < MaxApplied
    /\ LET r == ChainOnLine(dstate, RecorderList, failing, 1, stream_name, line)
       IN  /\ dstate' = r.d
           /\ k_raised' = r.raised
    /\ k_before' = dstate
    /\ k_history' = Append(k_history,
         [kind |-> "chain", tag |-> stream_name, line |-> line,
          failing |-> failing, callback |-> ""])
    /\ UNCHANGED <<d_kind, d_error, delegate_vars, base_vars>>

\* A caller calls on_line of a Redirect.
RedirectApply(stream_name, line) ==
    /\ Len(k_history) < MaxApplied
    /\ LET r == RedirectOnLine(dstate, stream_name, line)
       IN  /\ dstate' = r.d
           /\ k_raised' = r.raised
    /\ k_before' = dstate
    /\ k_history' = Append(k_history,
         [kind |-> "redirect", tag |-> stream_name, line |-> line,
          failing |-> {}, callback |-> ""])
    /\ UNCHANGED <<d_kind, d_error, delegate_vars, base_vars>>

\* A caller calls on_line of a Transform that wraps a recording delegate,
\* which raises when it is in failing.
TransformApply(callback, stream_name, line, failing) ==
    /\ Len(k_history) < MaxApplied
    /\ LET r == TransformOnLine(dstate, callback, "recorder", failing,
                                stream_name, line)
       IN  /\ dstate' = r.d
           /\ k_raised' = r.raised
    /\ k_before' = dstate
    /\ k_history' = Append(k_history,
         [kind |-> "transform", tag |-> stream_name, line |-> line,
          failing |-> failing, callback |-> callback])
    /\ UNCHANGED <<d_kind, d_error, delegate_vars, base_vars>>

NextCombinators ==
    \/ \E t \in AnyTags, l \in Contents, failing \in SUBSET Recorders :
         ChainApply(t, l, failing)
    \/ \E t \in AnyTags, l \in Contents : RedirectApply(t, l)
    \/ \E cb \in Callbacks, t \in AnyTags, l \in Contents,
          failing \in SUBSET {1} : TransformApply(cb, t, l, failing)

SpecCombinators == Init /\ [][NextCombinators]_vars

\* ----------------------- call() on an instance built with a combinator
\* The delegates an instance is built with: a Chain of recording delegates,
\* a Redirect, a Transform that wraps a Redirect, and a Chain of a Redirect
\* and a recording delegate that may raise.
ConcreteKinds == {"chain", "redirect", "transform", "chain_redirect"}

\* self._delegate.on_line(stream_name, line) for the delegate of that kind.
DelegateOnLine(kind, d, failing, stream_name, line) ==
    IF kind = "chain"
      THEN ChainOnLine(d, RecorderList, failing, 1, stream_name, line)
    ELSE IF kind = "redirect"
      THEN RedirectOnLine(d, stream_name, line)
    ELSE IF kind = "transform"
      THEN TransformOnLine(d, "by_tag", "redirect", failing, stream_name, line)
    ELSE ChainOnLine(d, <<"redirect", "recorder">>, failing, 1,
                     stream_name, line)

\* The recording delegates that may raise in an instance of that kind.
MayFail(kind) == IF kind = "chain_redirect" THEN {2} ELSE {}

\* Line 142: self._delegate.on_line(*args) runs in the worker thread; an
\* error it raises ends the thread.
OnLineConcrete(failing) ==
    /\ worker_pc = "on_line"
    /\ failing \subseteq MayFail(d_kind)
    /\ LET args == delivered[Len(delivered)]
           r == DelegateOnLine(d_kind, dstate, failing, args[1], args[2])
       IN  /\ dstate' = r.d
           /\ d_error' = r.error
           /\ worker_pc' = IF r.raised THEN "dead" ELSE "get"
    /\ on_line_callers' = on_line_callers \ {"queue_worker"}
    /\ UNCHANGED <<d_kind, k_history, k_before, k_raised>>
    /\ UNCHANGED delivered
    /\ UNCHANGED <<queue, sup_vars, child_vars, reader_vars, base_vars>>

NextConcrete ==
    \/ NextProgram
    \/ \E failing \in SUBSET Recorders : OnLineConcrete(failing)

InitConcrete == InitProgram /\ d_kind \in ConcreteKinds

SpecConcrete == InitConcrete /\ [][NextConcrete]_vars

\* Fairness: every started thread of the program keeps running, the
\* delegate's on_line terminates (it returns or raises), and the child
\* eventually exits.  Nothing forces a new call or an interrupt.
FairSpec ==
    /\ Spec
    /\ WF_vars(StartWorker)
    /\ WF_vars(StartStdoutReader)
    /\ WF_vars(StartStderrReader)
    /\ WF_vars(Wait)
    /\ WF_vars(\E kill_fails \in BOOLEAN : OnKeyboardInterrupt(kill_fails))
    /\ WF_vars(JoinStdoutReader)
    /\ WF_vars(JoinStderrReader)
    /\ WF_vars(PutNone)
    /\ WF_vars(JoinWorker)
    /\ \A t \in Tags : WF_vars(ReadLine(t))
    /\ \A t \in Tags : WF_vars(ReaderPut(t))
    /\ WF_vars(DrainGet)
    /\ WF_vars(OnLineReturns \/ OnLineRaises)
    /\ WF_vars(\E c \in ExitCodes : ChildExit(c))

\* ====================================================================
\* Properties
\* ====================================================================
InTrace(op) == \E i \in 1..Len(sup_trace) : sup_trace[i] = op

\* The part of sup_trace after its first occurrence of op.
After(op) ==
    LET i == CHOOSE k \in 1..Len(sup_trace) : sup_trace[k] = op
    IN  SubSeq(sup_trace, i + 1, Len(sup_trace))

IsPrefix(a, b) == Len(a) <= Len(b) /\ SubSeq(b, 1, Len(a)) = a

\* call() has come back to its caller after starting the three threads.
CallLeft == sup_pc = "idle" /\ InTrace("start_stderr")

\* The lines reader t got from readline() in this call, in order.
LinesRead(t) == SubSeq(produced[t], 1, nread[t])

\* The lines passed to on_line with tag t in this call, in order.
DeliveredOf(t) ==
    LET sel == SelectSeq(delivered, LAMBDA cmd : cmd[1] = t)
    IN  [i \in 1..Len(sel) |-> sel[i][2]]

Occurrences(seq, x) == Cardinality({i \in 1..Len(seq) : seq[i] = x})

Cleanup == <<"join_stdout", "join_stderr", "put_none", "join_worker">>

\* C1: a call that started its threads puts exactly one None on the queue,
\* only once both reader threads have terminated, and no line event is
\* queued behind it (whatever is left in the queue ends with that None).
C1_OneSentinelAfterReaders ==
    /\ sentinels <= 1
    /\ sentinels = 1 =>
         /\ \A t \in Tags : ReaderTerminated(t)
         /\ queue = <<>> \/ queue[Len(queue)] = None
    /\ CallLeft => sentinels = 1

\* C1 witness: an interrupted call that read lines on both streams has
\* come back with its one sentinel put.
C1_Witness ==
    /\ CallLeft
    /\ InTrace("interrupt")
    /\ sentinels = 1
    /\ \A t \in Tags : nread[t] >= 1

\* C2 (as claimed): when call comes back every line the readers read has
\* been passed to on_line exactly once, and on_line was called as many
\* times as lines were read.
C2_EveryLineDeliveredOnce ==
    CallLeft =>
      /\ Len(delivered) = nread["stdout"] + nread["stderr"]
      /\ \A t \in Tags : \A i \in 1..Len(LinesRead(t)) :
           Occurrences(delivered, <<t, LinesRead(t)[i]>>) = 1

\* C3: per stream, the on_line calls carry lines the child has written, in
\* the order it wrote them (a line is its index in production order) and
\* none twice.
C3_PerStreamOrder ==
    \A t \in Tags :
      LET d == DeliveredOf(t)
      IN  /\ \A i \in 1..Len(d) : d[i] \in 1..written[t]
          /\ \A i, j \in 1..Len(d) : i < j => d[i] < d[j]

\* C3 witness: two stdout lines were delivered in order, with a stderr line
\* between them: both relative orders of the two streams occur.
C3_Witness ==
    \E i, j, k \in 1..Len(delivered) :
      /\ i < j /\ j < k
      /\ delivered[i][1] = "stdout"
      /\ delivered[j][1] = "stderr"
      /\ delivered[k][1] = "stdout"

\* C4: at most one on_line is in progress, and it is the worker thread's.
C4_SingleDeliveryThread ==
    /\ Cardinality(on_line_callers) <= 1
    /\ on_line_callers \subseteq {"queue_worker"}

\* C4 witness: on_line is in progress while both readers hold a line.
C4_Witness ==
    /\ on_line_callers = {"queue_worker"}
    /\ \A t \in Tags : reader_pc[t] = "put"

\* C5: when a call that started its threads comes back, both readers and
\* the worker have terminated.
C5_NoThreadLeft ==
    CallLeft => /\ \A t \in Tags : ReaderTerminated(t)
                /\ WorkerTerminated

\* C5 witness: an interrupted call came back; its child was killed.
C5_Witness ==
    /\ CallLeft
    /\ InTrace("interrupt")
    /\ proc_state = "killed"
    /\ \A t \in Tags : ReaderTerminated(t)
    /\ WorkerTerminated

\* C6: after an interrupt in proc.wait() the supervisor requests the kill
\* (the child is not running afterwards) and then does what it does after a
\* wait that returned: join stdout, join stderr, put None, join worker.
C6_InterruptThenKillThenCleanup ==
    /\ InTrace("interrupt") =>
         /\ IsPrefix(After("interrupt"), <<"kill">> \o Cleanup)
         /\ sup_pc = "idle" => After("interrupt") = <<"kill">> \o Cleanup
         /\ InTrace("kill") => proc_state # "running"
    /\ InTrace("wait") =>
         /\ IsPrefix(After("wait"), Cleanup)
         /\ sup_pc = "idle" => After("wait") = Cleanup

\* C6 witness: an interrupted call is about to join the worker: the kill
\* and the first three cleanup steps are done.
C6_Witness ==
    /\ sup_pc = "join_worker"
    /\ After("popen") = <<"start_worker", "start_stdout", "start_stderr",
                          "interrupt", "kill", "join_stdout", "join_stderr",
                          "put_none">>
    /\ proc_state = "killed"

\* C7 (as claimed): an interrupted call returns, and returns the exit
\* status of the child.
C7_InterruptedCallReturnsExitCode ==
    (CallLeft /\ InTrace("interrupt")) =>
      /\ outcome = "returned"
      /\ retval = Some(ExitStatus)

\* C8 (as claimed): when on_line raised, call does not return normally:
\* the failure reaches the caller.
C8_DelegateFailureReachesCaller ==
    (CallLeft /\ worker_pc = "dead") => outcome = "raised"

\* C9: under fair scheduling a call in progress comes back to its caller,
\* with both pipes drained: readers, worker and supervisor never end up
\* blocked on each other.
C9_CallTerminates ==
    (sup_pc # "idle") ~> (sup_pc = "idle" /\ \A t \in Tags : pipe[t] = <<>>)

\* C9 witness: the supervisor waits for a child whose stdout pipe is full,
\* while the worker is busy in on_line and a line event is queued.
C9_Witness ==
    /\ sup_pc = "wait"
    /\ proc_state = "running"
    /\ Len(pipe["stdout"]) = PipeCap
    /\ worker_pc = "on_line"
    /\ queue # <<>>

\* C10 (as claimed): call returns the child's code; check_call returns 0 on
\* code 0 and raises CalledProcessError carrying the code and the command
\* on any other code.
C10_CallAndCheckCall ==
    (b_pc = "idle" /\ b_returncode # None) =>
      LET c == b_returncode[1] IN
      /\ b_method = "call" => b_result = Some(c) /\ b_error = ""
      /\ (b_method = "check_call" /\ c = 0) =>
           b_result = Some(0) /\ b_error = ""
      /\ (b_method = "check_call" /\ c # 0) =>
           /\ b_result = None
           /\ b_error = "CalledProcessError"
           /\ b_err_returncode = Some(c)
           /\ b_err_cmd = Some(OriginalCmd(b_args, b_kwargs))

\* C15: whenever the supervisor is in proc.wait(), the worker and both
\* readers have been started (each is running or has finished).
C15_ThreadsStartedBeforeWait ==
    sup_pc = "wait" =>
      /\ worker_pc # "new"
      /\ \A t \in Tags : reader_pc[t] # "new"

\* C15 witness: the supervisor waits for a running child whose stdout pipe
\* is full; the stdout reader is about to read and the worker is idle.
C15_Witness ==
    /\ sup_pc = "wait"
    /\ proc_state = "running"
    /\ Len(pipe["stdout"]) = PipeCap
    /\ reader_pc["stdout"] = "readline"
    /\ worker_pc = "get"

\* A call whose launch failed: it raised without starting anything.
LaunchFailed == sup_pc = "idle" /\ outcome = "raised" /\ sup_trace = <<"popen">>

\* C16: a call whose launch fails raises the launch error in that step,
\* leaves the queue as it was, starts no thread, puts no sentinel and never
\* calls the delegate.
C16_LaunchFailureNoEffect ==
    /\ [](LaunchFailed =>
            /\ error = "OSError"
            /\ worker_pc = "new"
            /\ \A t \in Tags : reader_pc[t] = "new"
            /\ sentinels = 0
            /\ delivered = <<>>
            /\ on_line_callers = {})
    /\ [][LaunchFailed' /\ ncalls' # ncalls => queue' = queue]_vars

\* C16 witness: the launch of a second call failed while the queue still
\* holds what an earlier call left in it.
C16_Witness ==
    /\ LaunchFailed
    /\ ncalls = 2
    /\ queue # <<>>

\* C18 (as claimed): no error escapes a call that was interrupted in
\* proc.wait(), whether the kill succeeded or failed.
C18_InterruptPathNeverRaises ==
    (CallLeft /\ InTrace("interrupt")) => (outcome = "returned" /\ error = "")

\* C19 (as claimed): the queue is empty whenever call has come back, and
\* the on_line calls of a call carry only lines its own child wrote.
C19_QueueEmptyAfterCall ==
    (sup_pc = "idle" /\ outcome \in {"returned", "raised"}) =>
      /\ queue = <<>>
      /\ \A i \in 1..Len(delivered) :
           \E k \in 1..Len(produced[delivered[i][1]]) :
             produced[delivered[i][1]][k] = delivered[i][2]

\* C17 (as claimed): when a read failed on some stream, call still comes
\* back returning the child's exit status, with its sentinel put and the
\* worker joined, every line that was read has been delivered once, and the
\* reader of a stream whose reads did not fail has read that stream to its
\* end.
C17_ReadErrorEndsOnlyThatReader ==
    (CallLeft /\ \E t \in Tags : reader_pc[t] = "failed") =>
      /\ \A t \in Tags :
           reader_pc[t] # "failed" =>
             (reader_pc[t] = "done" /\ LinesRead(t) = produced[t])
      /\ Len(delivered) = nread["stdout"] + nread["stderr"]
      /\ \A t \in Tags : \A i \in 1..Len(LinesRead(t)) :
           Occurrences(delivered, <<t, LinesRead(t)[i]>>) = 1
      /\ sentinels = 1
      /\ WorkerTerminated
      /\ outcome = "returned"
      /\ retval = Some(ExitStatus)

\* --------------------------------------------- the delegate combinators
\* The on_line call a caller made last, with its inputs.
LastApplied == k_history[Len(k_history)]

Min(S) == CHOOSE x \in S : \A y \in S : x <= y

\* C11: Chain.on_line(tag, line) calls on_line(tag, line) once on each
\* delegate of delegate_list, in list order, with tag and line unchanged;
\* when a delegate raises, the ones before it have been called, the ones
\* after it are not called, and the error leaves Chain.on_line.
C11_ChainCallsInOrderUntilFailure ==
    (k_history # <<>> /\ LastApplied.kind = "chain") =>
      LET a == LastApplied
          m == IF a.failing = {} THEN ChainLen ELSE Min(a.failing)
      IN  /\ dstate.log =
               k_before.log \o [i \in 1..m |-> <<i, a.tag, a.line>>]
          /\ k_raised = (a.failing # {})
          /\ dstate.sink = k_before.sink
          /\ dstate.cb_calls = k_before.cb_calls

\* C11 witness: a chain was called whose first delegate raised, so that the
\* delegate after it was not called.
C11_Witness ==
    /\ k_history # <<>>
    /\ LastApplied.kind = "chain"
    /\ LastApplied.failing = {1}
    /\ k_raised
    /\ Len(dstate.log) = Len(k_before.log) + 1

\* The inputs of the on_line calls made on a Transform, in order.
TransformInputs ==
    LET sel == SelectSeq(k_history, LAMBDA a : a.kind = "transform")
    IN  [i \in 1..Len(sel) |-> <<sel[i].tag, sel[i].line>>]

\* C14: Transform.on_line(tag, line) calls the callback once with
\* (tag, line), then calls the wrapped delegate's on_line once with
\* (tag, callback(tag, line)): the tag is forwarded unchanged, only the
\* content is replaced, and the calls keep the order of the input lines.
C14_TransformForwardsRewrittenLine ==
    /\ dstate.cb_calls = TransformInputs
    /\ (k_history # <<>> /\ LastApplied.kind = "transform") =>
         LET a == LastApplied
         IN  /\ dstate.cb_calls = Append(k_before.cb_calls, <<a.tag, a.line>>)
             /\ dstate.log =
                  Append(k_before.log,
                         <<1, a.tag, ApplyCallback(a.callback, a.tag, a.line)>>)
             /\ k_raised = (1 \in a.failing)
             /\ dstate.sink = k_before.sink

\* C14 witness: two lines went through a Transform whose callback rewrites
\* by tag, the second one on stderr, and the wrapped delegate returned.
C14_Witness ==
    /\ Len(TransformInputs) = 2
    /\ LastApplied.kind = "transform"
    /\ LastApplied.callback = "by_tag"
    /\ LastApplied.tag = "stderr"
    /\ ~k_raised
    /\ dstate.log[Len(dstate.log)][3] # LastApplied.line

\* ------------------------------------- call() driving the combinators
\* The (tag, line) pairs recording delegate i of a Chain has received, in
\* order.
ReceivedBy(i) ==
    LET sel == SelectSeq(dstate.log, LAMBDA e : e[1] = i)
    IN  [k \in 1..Len(sel) |-> <<sel[k][2], sel[k][3]>>]

\* The last n elements of seq.
Last(seq, n) == SubSeq(seq, Len(seq) - n + 1, Len(seq))

\* C12: when call has come back on an instance built with a Chain of
\* recording delegates, each delegate has received one on_line call for
\* every line the child wrote on stdout and on stderr, and all delegates
\* have recorded the same calls in the same order, whatever the
\* interleaving of the two readers.
C12_ChainDelegatesReceiveSameCalls ==
    (CallLeft /\ d_kind = "chain") =>
      /\ Len(delivered) = Len(produced["stdout"]) + Len(produced["stderr"])
      /\ \A t \in Tags : DeliveredOf(t) = produced[t]
      /\ \A i \in Recorders :
           /\ Len(ReceivedBy(i)) = written["stdout"] + written["stderr"]
           /\ Last(ReceivedBy(i), Len(delivered)) = delivered
           /\ ReceivedBy(i) = ReceivedBy(1)

\* C12 witness: call came back from a child that wrote two lines on stdout
\* and one on stderr, and the stderr line was delivered between the two
\* stdout lines.
C12_Witness ==
    /\ CallLeft
    /\ d_kind = "chain"
    /\ Len(produced["stdout"]) = 2
    /\ Len(produced["stderr"]) = 1
    /\ Len(delivered) = 3
    /\ delivered[2][1] = "stderr"

\* C13: Redirect.on_line appends the line unmodified to the sink of its tag
\* and leaves the other sink alone, for a tag that is neither stdout nor
\* stderr it raises and writes to neither sink; after a run on an instance
\* built with a Redirect each sink holds the lines the child wrote on that
\* stream, in order.
C13_RedirectWritesToSinkOfTag ==
    /\ \A stream_name \in AnyTags, line \in Contents :
         LET r == RedirectOnLine(dstate, stream_name, line)
         IN  IF stream_name \in Tags
               THEN /\ ~r.raised
                    /\ r.d = [dstate EXCEPT
                                !.sink[stream_name] = Append(@, line)]
               ELSE /\ r.raised
                    /\ r.error = "AssertionError"
                    /\ r.d = dstate
    /\ (CallLeft /\ d_kind = "redirect") =>
         \A t \in Tags :
           /\ Len(dstate.sink[t]) = written[t]
           /\ Last(dstate.sink[t], Len(produced[t])) = produced[t]

\* C13 witness: call came back from a child that wrote two lines on stdout
\* and nothing on stderr; the stdout sink holds the two lines and the
\* stderr sink is empty.
C13_Witness ==
    /\ CallLeft
    /\ d_kind = "redirect"
    /\ ncalls = 1
    /\ Len(produced["stdout"]) = 2
    /\ dstate.sink["stdout"] = produced["stdout"]
    /\ dstate.sink["stderr"] = <<>>

\* C20: every on_line call of the worker carries the tag of the stream its
\* line was read from, None is never passed to the delegate, and the
\* assertion of Redirect.on_line never fails when call drives a Redirect,
\* directly or under a Chain or a Transform.
C20_WorkerPassesOnlyTaggedLines ==
    /\ \A i \in 1..Len(delivered) :
         /\ delivered[i] # None
         /\ Len(delivered[i]) = 2
         /\ delivered[i][1] \in Tags
         /\ delivered[i][2] \in 1..written[delivered[i][1]]
    /\ d_error # "AssertionError"
    /\ d_kind \in {"redirect", "transform"} => worker_pc # "dead"
    /\ d_kind \in {"redirect", "chain_redirect"} =>
         \A t \in Tags :
           /\ Len(dstate.sink[t]) <= written[t]
           /\ dstate.sink[t] = [i \in 1..Len(dstate.sink[t]) |-> i]
    /\ d_kind = "transform" =>
         \A t \in Tags :
           /\ Len(dstate.sink[t]) <= written[t]
           /\ dstate.sink[t] =
                [i \in 1..Len(dstate.sink[t]) |-> ApplyCallback("by_tag", t, i)]

\* C20 witness: call came back after the worker passed lines of both
\* streams to a Redirect under a Transform, and the worker ended on None.
C20_Witness ==
    /\ CallLeft
    /\ d_kind = "transform"
    /\ worker_pc = "done"
    /\ \A t \in Tags : dstate.sink[t] # <<>>

====
